---- MODULE Spec2Model ----
(***************************************************************************)
(* LisboaUX Jobs: the job mutation service (server actions addJob and      *)
(* updateJob), the points ledger call, the analytics sink, the URL         *)
(* helpers and the new-job webhook with its Slack/Telegram notification.   *)
(*                                                                         *)
(* Every handler is one action: the request's inputs and the outcomes of   *)
(* the external calls it awaits (database, add_points RPC, Slack, Telegram)*)
(* are drawn with \E, and the action's primed variables are the state      *)
(* after the handler returned or threw.                                    *)
(***************************************************************************)
EXTENDS Integers, Sequences, FiniteSets, TLC

VARIABLES
    env,            \* process.env: the deployment's configuration
    clock,          \* number of server-action invocations handled (also "now")
    jobs,           \* table jobs: sequence of rows, row i has id i
    profiles,       \* table profiles: user id -> [user_role, points]
    posthogClient,  \* module-level singleton of lib/posthog/server
    posthogMade,    \* how many PostHog clients were constructed
    last,           \* what the last server-action invocation was given and did
    deliveries,     \* number of webhook deliveries handled
    outbox,         \* every outbound notification POST so far
    wlast,          \* what the last webhook delivery was given and did
    inflight,       \* the addJob invocations running side by side
    visit,          \* what the last GET /j/{code} was given and did
    helper,         \* the last call of a URL helper of lib/utils
    msgText,        \* a text of the Telegram message and its escaped form
    updating,       \* the updateJob invocations running side by side
    pager,          \* the JobList component: ?page, the jobs given, pendingPage
    sheet           \* the admin jobs table: sheetOpen, selectedJob, timers set

vars == <<env, clock, jobs, profiles, posthogClient, posthogMade, last,
          deliveries, outbox, wlast, inflight, visit, helper, msgText,
          updating, pager, sheet>>

\* what the actions modelled first leave alone
sideVars == <<msgText, updating, pager, sheet>>

jobVars == <<clock, jobs, profiles, posthogClient, posthogMade, last>>
hookVars == <<deliveries, outbox, wlast>>

(***************************************************************************)
(* Bounds of the model.                                                    *)
(***************************************************************************)
MaxOps == 2
MaxJobs == 2
MaxDeliveries == 2
MaxCreators == 2
MaxVisits == 2
MaxParams == 2
MaxText == 4
MaxListed == 5
MaxTimers == 2

(***************************************************************************)
(* JavaScript values.                                                      *)
(***************************************************************************)
NULL == "null"            \* null (FormData.get of a missing field, no row)
UNDEFINED == "undefined"  \* an unset environment variable

\* !v for the strings the handlers test
Falsy(v) == v \in {NULL, UNDEFINED, ""}

(***************************************************************************)
(* URLs.  A URL string is modelled by what the WHATWG parser sees in it:   *)
(* whether it is an absolute URL at all (new URL throws otherwise),        *)
(* whether its path is written out ("https://a.co" serialises as           *)
(* "https://a.co/"), and its query as a sequence of <<name, value>> pairs. *)
(* A parameter name is a sequence of tokens, so that the anchored patterns *)
(* /^utm_/ and /^ref$/ can be told apart from names such as "referrer".    *)
(* A form field or payload member that should hold a URL also says how it  *)
(* was given: "null" (absent), "" (empty string) or "text".                *)
(***************************************************************************)
UrlString(abs, slash, query) ==
    [given |-> "text", abs |-> abs, slash |-> slash, query |-> query]

U_null == [given |-> NULL, abs |-> FALSE, slash |-> FALSE, query |-> <<>>]
U_empty == [given |-> "", abs |-> FALSE, slash |-> FALSE, query |-> <<>>]

\* new URL(s) does not throw
URLParses(s) == s.given = "text" /\ s.abs

\* new URL(s): the parsed form (only for strings that parse)
URLParse(s) == [slash |-> TRUE, query |-> s.query]

\* url.toString()
URLToString(u) == UrlString(TRUE, u.slash, u.query)

\* searchParams.delete(key): removes every pair with that name
SearchParamsDelete(query, key) ==
    LET Keep(p) == p[1] # key IN SelectSeq(query, Keep)

\* searchParams.append(key, value) in the place of set
SearchParamsSet_append(query, key, value) == Append(query, <<key, value>>)

\* searchParams.set(key, value): overwrites the first pair with that name and
\* removes the others, or appends a new pair
SearchParamsSet(query, key, value) ==
    LET hits == {i \in 1..Len(query) : query[i][1] = key}
    IN  IF hits = {}
          THEN Append(query, <<key, value>>)
          ELSE LET first == CHOOSE i \in hits : \A j \in hits : i <= j
                   idx == {i \in 1..Len(query) : i = first \/ query[i][1] # key}
                   Pick(i) == IF i = first THEN <<key, value>> ELSE query[i]
                   RECURSIVE Build(_)
                   Build(i) == IF i > Len(query) THEN <<>>
                               ELSE IF i \in idx THEN <<Pick(i)>> \o Build(i + 1)
                               ELSE Build(i + 1)
               IN  Build(1)

TRACKING_EXACT ==
    { <<"ref">>, <<"fbclid">>, <<"gclid">>, <<"gad_source">>, <<"msclkid">>,
      <<"twclid">>, <<"li_fat_id">>, <<"mc_eid">>, <<"oly_enc_id">>,
      <<"_hsenc">>, <<"_hsmi">>, <<"vero_id">>, <<"mkt_tok">> }

\* a list of patterns that lacks /^utm_/
isTrackingParam_listedOnly(key) == key \in TRACKING_EXACT

\* TRACKING_PARAM_PATTERNS.some((pattern) => pattern.test(key))
isTrackingParam(key) ==
    \/ (Len(key) >= 1 /\ key[1] = "utm_")
    \/ key \in TRACKING_EXACT

\* a cleaning that deletes the first tracking name it meets and no other
cleanTrackingParams_oneName(inputUrl) ==
    IF ~URLParses(inputUrl) THEN inputUrl
    ELSE LET parsed == URLParse(inputUrl)
             Hit(p) == isTrackingParam(p[1])
             paramsToDelete == SelectSeq(parsed.query, Hit)
             q == IF paramsToDelete = <<>> THEN parsed.query
                  ELSE SearchParamsDelete(parsed.query, paramsToDelete[1][1])
         IN  URLToString([parsed EXCEPT !.query = q])

cleanTrackingParams(inputUrl) ==
    IF ~URLParses(inputUrl) THEN inputUrl
    ELSE LET parsed == URLParse(inputUrl)
             paramsToDelete ==
                 LET Hit(p) == isTrackingParam(p[1])
                 IN  SelectSeq(parsed.query, Hit)
             RECURSIVE DeleteAll(_, _)
             DeleteAll(q, i) ==
                 IF i > Len(paramsToDelete) THEN q
                 ELSE DeleteAll(SearchParamsDelete(q, paramsToDelete[i][1]), i + 1)
         IN  URLToString([parsed EXCEPT !.query = DeleteAll(parsed.query, 1)])

\* hasQueryParams: searchParams.size > 0, false when new URL throws
hasQueryParams(url) ==
    IF ~URLParses(url) THEN FALSE ELSE Len(URLParse(url).query) > 0

\* removeAllQueryParams: parsed.search = ''
removeAllQueryParams(url) ==
    IF ~URLParses(url) THEN url
    ELSE URLToString([URLParse(url) EXCEPT !.query = <<>>])

\* the query-parameter names a stored URL string carries
ParamNames(s) ==
    IF URLParses(s) THEN {s.query[i][1] : i \in 1..Len(s.query)} ELSE {}

K_utm_source == <<"utm_", "source">>
K_id == <<"id">>

U_bad == UrlString(FALSE, FALSE, <<>>)
U_keep == UrlString(TRUE, TRUE, << <<K_id, "7">> >>)
U_utm == UrlString(TRUE, TRUE, << <<K_id, "7">>, <<K_utm_source, "news">> >>)
\* https://acme.com/?utm_source=a&id=7&utm_source=b
U_twice ==
    UrlString(TRUE, TRUE,
              << <<K_utm_source, "a">>, <<K_id, "7">>, <<K_utm_source, "b">> >>)

(***************************************************************************)
(* Sessions, profiles and form data of the server actions.                 *)
(***************************************************************************)
\* who sends the request: nobody signed in, a signed-in user whose profile
\* row is missing, and users of each role
Callers == {"anon", "ghost", "uma", "ada", "olga"}

InitProfiles ==
    [u \in {"uma", "ada", "olga"} |->
        [user_role |-> CASE u = "uma" -> "user"
                         [] u = "ada" -> "admin"
                         [] OTHER -> "owner",
         points |-> 0]]

\* supabase.auth.getUser(): data.user, as a sequence of zero or one users
getUser(caller) == IF caller = "anon" THEN <<>> ELSE <<caller>>

\* supabase.from('profiles').select(...).eq('id', id).single(): data
selectProfile(id) ==
    IF id \in DOMAIN profiles THEN <<profiles[id]>> ELSE <<>>

\* the role test both actions apply to the profile they loaded
canManageJobs(profile) ==
    ~ (profile = <<>> \/
       (profile[1].user_role # "admin" /\ profile[1].user_role # "owner"))

REQUIRED == {"title", "company", "location", "url"}

\* a test that forgets the location: !title || !company || !url
missingRequired_noLocation(form) ==
    {f \in {"title", "company"} : Falsy(form[f])}
        \cup (IF form.url.given # "text" THEN {"url"} ELSE {})

\* the required fields the test !title || !company || !location || !url trips on
missingRequired(form) ==
    {f \in {"title", "company", "location"} : Falsy(form[f])}
        \cup (IF form.url.given # "text" THEN {"url"} ELSE {})

\* the field names an error message spells out
FieldsNamed(error) ==
    CASE error = "Please enter a valid URL" -> {"url"}
      [] error = "Invalid job ID" -> {"id"}
      [] OTHER -> {}

Form(title, company, location, url) ==
    [title |-> title, company |-> company, location |-> location, url |-> url,
     id |-> <<>>, is_active |-> NULL]

AddForms ==
    { Form("UX Designer", "Acme", "Lisbon", u) : u \in {U_keep, U_utm, U_bad} }
    \cup { Form(NULL, "Acme", "Lisbon", U_keep),
           Form("", "Acme", "Lisbon", U_keep),
           Form("UX Designer", "Acme", "", U_keep),
           Form("UX Designer", "Acme", "Lisbon", U_null),
           Form(NULL, NULL, NULL, U_empty) }

(***************************************************************************)
(* parseInt(string, 10) on a string given as its characters: leading       *)
(* blanks are skipped, one sign is read, then the longest run of digits;   *)
(* no digit at all gives NaN.  A missing field is null, which parseInt     *)
(* reads as the text "null".                                               *)
(***************************************************************************)
DigitValue(c) ==
    CASE c = "0" -> 0 [] c = "1" -> 1 [] c = "2" -> 2 [] c = "3" -> 3
      [] c = "4" -> 4 [] c = "5" -> 5 [] c = "6" -> 6 [] c = "7" -> 7
      [] c = "8" -> 8 [] c = "9" -> 9 [] OTHER -> -1

IsDigit(c) == DigitValue(c) >= 0

RECURSIVE SkipBlanks(_)
SkipBlanks(s) == IF s # <<>> /\ s[1] = " " THEN SkipBlanks(Tail(s)) ELSE s

RECURSIVE DigitRun(_, _)
DigitRun(s, acc) ==
    IF s # <<>> /\ IsDigit(s[1])
      THEN DigitRun(Tail(s), 10 * acc + DigitValue(s[1]))
      ELSE acc

parseInt(str) ==
    LET s == SkipBlanks(str)
        neg == s # <<>> /\ s[1] = "-"
        body == IF s # <<>> /\ s[1] \in {"-", "+"} THEN Tail(s) ELSE s
    IN  IF body = <<>> \/ ~IsDigit(body[1])
          THEN [nan |-> TRUE, val |-> 0]
          ELSE [nan |-> FALSE,
                val |-> IF neg THEN 0 - DigitRun(body, 0) ELSE DigitRun(body, 0)]

\* !id || isNaN(id)
invalidJobId(id) == id.val = 0 \/ id.nan

ABSENT_ID == <<"n", "u", "l", "l">>

GoodForm == Form("UX Designer", "Acme", "Lisbon", U_keep)

UpdateForm(f, id, active) == [f EXCEPT !.id = id, !.is_active = active]

UpdateForms ==
    { UpdateForm(f, id, a) :
        f \in {GoodForm, Form("UX Designer", "Acme", "Lisbon", U_utm)},
        id \in {<<"1">>, <<"2">>, <<"9">>}, a \in {"true", "false"} }
    \cup { UpdateForm(GoodForm, id, "false") :
        id \in { ABSENT_ID, <<>>, <<"x">>, <<"0">>, <<"1", "x">>, <<"x", "1">>,
                 <<"-", "1">>, <<" ", "2">> } }
    \cup { UpdateForm(f, <<"1">>, "false") :
        f \in { Form("UX Designer", "Acme", "Lisbon", U_bad),
                Form(NULL, "Acme", "Lisbon", U_keep),
                Form(NULL, "Acme", "", U_null) } }
    \cup { UpdateForm(Form(NULL, "Acme", "Lisbon", U_keep), <<"x">>, "false"),
           UpdateForm(GoodForm, <<"1">>, NULL) }

(***************************************************************************)
(* What an invocation returns, and the record kept of it.                  *)
(***************************************************************************)
Success == [success |-> TRUE, error |-> "", threw |-> FALSE]
Failure(message) == [success |-> FALSE, error |-> message, threw |-> FALSE]
Threw == [success |-> FALSE, error |-> "", threw |-> TRUE]

NoForm == Form(NULL, NULL, NULL, U_null)

InitLast ==
    [op |-> "none", caller |-> "anon", form |-> NoForm, result |-> Success,
     db |-> "none", original |-> <<>>, rpc |-> <<>>, captured |-> <<>>, sent |-> <<>>,
     paths |-> <<>>]

\* new Date() of the invocation being handled
Now == clock + 1

POINTS_ADD_JOB == 100
POINTS_DEACTIVATE == 200

(***************************************************************************)
(* lib/supabase/admin: the service-role client and the add_points RPC.     *)
(***************************************************************************)
\* a client that needs no service-role key, as the session client does
createAdminClientThrows_never == FALSE

\* createAdminClient throws when the URL or the service-role key is missing
createAdminClientThrows ==
    Falsy(env.NEXT_PUBLIC_SUPABASE_URL) \/ Falsy(env.SUPABASE_SERVICE_ROLE_KEY)

\* the effect of the add_points calls of one invocation on table profiles:
\* a call that returned no error has incremented the target's points
RECURSIVE ApplyRpc(_, _)
ApplyRpc(table, calls) ==
    IF calls = <<>> THEN table
    ELSE LET c == Head(calls)
             t == IF c.ok /\ c.target \in DOMAIN table
                    THEN [table EXCEPT ![c.target].points = @ + c.amount]
                    ELSE table
         IN  ApplyRpc(t, Tail(calls))

(***************************************************************************)
(* lib/posthog/server: getPostHogServer and captureServerEvent.            *)
(***************************************************************************)
\* the events of one invocation that reach posthog.capture
captureServerEvent(events) ==
    IF Falsy(env.NEXT_PUBLIC_POSTHOG_KEY) THEN <<>> ELSE events

\* the singleton after getPostHogServer ran for these events
getPostHogServer(events) ==
    IF events = <<>> \/ Falsy(env.NEXT_PUBLIC_POSTHOG_KEY)
      THEN posthogClient
      ELSE "PostHog"

\* a getPostHogServer without the test of the singleton
newPostHog_always(events) ==
    events # <<>> /\ ~Falsy(env.NEXT_PUBLIC_POSTHOG_KEY)

\* getPostHogServer runs new PostHog(...): the key is there and
\* if (!posthogClient) finds no client yet
newPostHog(events) ==
    events # <<>> /\ ~Falsy(env.NEXT_PUBLIC_POSTHOG_KEY) /\ posthogClient = NULL

Event(name, userId, jobId, wasDeactivated, pointsAwarded) ==
    [event |-> name, distinctId |-> userId, job_id |-> jobId,
     was_deactivated |-> wasDeactivated, points_awarded |-> pointsAwarded]

(***************************************************************************)
(* The end of an invocation: everything it did, at once.                   *)
(***************************************************************************)
Finish(op, caller, form, result, db, jobs2, original, rpc, events, paths) ==
    /\ clock' = Now
    /\ jobs' = jobs2
    /\ profiles' = ApplyRpc(profiles, rpc)
    /\ posthogClient' = getPostHogServer(events)
    /\ posthogMade' = IF newPostHog(events)
                        THEN posthogMade + 1 ELSE posthogMade
    /\ last' = [op |-> op, caller |-> caller, form |-> form, result |-> result,
                db |-> db, original |-> original, rpc |-> rpc, captured |-> events,
                sent |-> captureServerEvent(events), paths |-> paths]
    /\ UNCHANGED <<env, hookVars, inflight, visit, helper,
                 sideVars>>

\* an early return: nothing was written, called or revalidated
Return(op, caller, form, result) ==
    Finish(op, caller, form, result, "none", jobs, <<>>, <<>>, <<>>, <<>>)

(***************************************************************************)
(* Table jobs as the handlers use it.                                      *)
(***************************************************************************)
\* what an insert can answer: a row, or an error (always an error once the
\* model's table is full)
InsertOutcomes == IF Len(jobs) < MaxJobs THEN {"ok", "error"} ELSE {"error"}

\* the row an insert creates: id and short_code are assigned by the database
NewRow(form, createdBy) ==
    [id |-> Len(jobs) + 1, title |-> form.title, company |-> form.company,
     location |-> form.location, url |-> form.url, is_active |-> TRUE,
     submitted_on |-> Now, short_code |-> Len(jobs) + 1,
     created_by |-> createdBy, modified_by |-> NULL, updated_at |-> 0]

\* from('jobs').select(...).eq('id', id).single(): data
selectJob(id, outcome) ==
    IF outcome = "ok" /\ id \in 1..Len(jobs) THEN <<jobs[id]>> ELSE <<>>

\* what the select of an existing row can answer (for a missing row every
\* answer has data = null)
SelectOutcomes(id) == IF id \in 1..Len(jobs) THEN {"ok", "error"} ELSE {"ok"}

\* an update that also stamps submitted_on
updateRow_restamps(id, form, isActive, userId, outcome) ==
    IF outcome = "ok" /\ id \in 1..Len(jobs)
      THEN [jobs EXCEPT ![id] =
              [@ EXCEPT !.title = form.title, !.company = form.company,
                        !.location = form.location, !.url = form.url,
                        !.is_active = isActive, !.modified_by = userId,
                        !.updated_at = Now, !.submitted_on = Now]]
      ELSE jobs

\* from('jobs').update({...}).eq('id', id): the table afterwards
updateRow(id, form, isActive, userId, outcome) ==
    IF outcome = "ok" /\ id \in 1..Len(jobs)
      THEN [jobs EXCEPT ![id] =
              [@ EXCEPT !.title = form.title, !.company = form.company,
                        !.location = form.location, !.url = form.url,
                        !.is_active = isActive, !.modified_by = userId,
                        !.updated_at = Now]]
      ELSE jobs

\* an action that never looks at the error of its write
persistFailed_ignored(outcome) == FALSE

\* if (jobError) / if (updateError)
persistFailed(outcome) == outcome # "ok"

\* originalJob?.is_active === true && isActive === false
wasDeactivated(originalJob, isActive) ==
    originalJob # <<>> /\ originalJob[1].is_active = TRUE /\ isActive = FALSE

(***************************************************************************)
(* lib/actions/jobs: addJob.                                               *)
(***************************************************************************)
addJobPersist(caller, userId, form) ==
    \E db \in InsertOutcomes :
        LET jobs2 == IF db = "ok" THEN Append(jobs, NewRow(form, NULL)) ELSE jobs
        IN  IF persistFailed(db)
              THEN Finish("addJob", caller, form,
                          Failure("Failed to add job. Please try again."),
                          db, jobs2, <<>>, <<>>, <<>>, <<>>)
            ELSE IF createAdminClientThrows
              THEN Finish("addJob", caller, form, Threw, db, jobs2,
                          <<>>, <<>>, <<>>, <<>>)
            ELSE \E rpcOk \in BOOLEAN :
                LET call == [target |-> userId, amount |-> POINTS_ADD_JOB,
                             ok |-> rpcOk]
                IN  IF db # "ok"
                      \* newJob is null: reading newJob.id throws
                      THEN Finish("addJob", caller, form, Threw, db, jobs2,
                                  <<>>, <<call>>, <<>>, <<>>)
                      ELSE Finish("addJob", caller, form, Success, db, jobs2,
                                  <<>>, <<call>>,
                                  <<Event("job_added", userId, Len(jobs2),
                                          FALSE, POINTS_ADD_JOB)>>,
                                  <<"/", "/admin">>)

\* an addJob that validates the form before it looks at the caller
addJob_validateFirst(caller, form) ==
    LET user == getUser(caller)
        profile == IF user = <<>> THEN <<>> ELSE selectProfile(user[1])
    IN  IF missingRequired(form) # {}
          THEN Return("addJob", caller, form, Failure("All fields are required"))
        ELSE IF ~URLParses(form.url)
          THEN Return("addJob", caller, form, Failure("Please enter a valid URL"))
        ELSE IF user = <<>>
          THEN Return("addJob", caller, form, Failure("Not authenticated"))
        ELSE IF ~canManageJobs(profile)
          THEN Return("addJob", caller, form, Failure("Not authorized"))
        ELSE addJobPersist(caller, user[1], form)

addJob(caller, form) ==
    LET user == getUser(caller)
        profile == IF user = <<>> THEN <<>> ELSE selectProfile(user[1])
    IN  IF user = <<>>
          THEN Return("addJob", caller, form, Failure("Not authenticated"))
        ELSE IF ~canManageJobs(profile)
          THEN Return("addJob", caller, form, Failure("Not authorized"))
        ELSE IF missingRequired(form) # {}
          THEN Return("addJob", caller, form, Failure("All fields are required"))
        ELSE IF ~URLParses(form.url)
          THEN Return("addJob", caller, form, Failure("Please enter a valid URL"))
        ELSE addJobPersist(caller, user[1], form)

AddJob ==
    /\ clock < MaxOps
    /\ \E caller \in Callers, form \in AddForms : addJob(caller, form)

(***************************************************************************)
(* lib/actions/jobs: updateJob.                                            *)
(***************************************************************************)
updateJobPersist(caller, userId, form, id, isActive) ==
    \E fetch \in SelectOutcomes(id), db \in {"ok", "error"} :
        LET originalJob == selectJob(id, fetch)
            jobs2 == updateRow(id, form, isActive, userId, db)
            paths == <<"/", "/admin", "/admin/jobs">>
        IN  IF persistFailed(db)
              THEN Finish("updateJob", caller, form,
                          Failure("Failed to update job. Please try again."),
                          db, jobs2, originalJob, <<>>, <<>>, <<>>)
            ELSE IF ~wasDeactivated(originalJob, isActive)
              THEN Finish("updateJob", caller, form, Success, db, jobs2,
                          originalJob, <<>>,
                          <<Event("job_updated", userId, id, FALSE, 0)>>, paths)
            ELSE IF createAdminClientThrows
              THEN Finish("updateJob", caller, form, Threw, db, jobs2,
                          originalJob, <<>>, <<>>, <<>>)
            ELSE \E rpcOk \in BOOLEAN :
                LET call == [target |-> userId, amount |-> POINTS_DEACTIVATE,
                             ok |-> rpcOk]
                    pointsAwarded == IF rpcOk THEN POINTS_DEACTIVATE ELSE 0
                IN  Finish("updateJob", caller, form, Success, db, jobs2,
                           originalJob, <<call>>,
                           <<Event("job_updated", userId, id, TRUE,
                                   pointsAwarded)>>, paths)

updateJob(caller, form) ==
    LET user == getUser(caller)
        profile == IF user = <<>> THEN <<>> ELSE selectProfile(user[1])
        id == parseInt(form.id)
        isActive == (form.is_active = "true")
    IN  IF user = <<>>
          THEN Return("updateJob", caller, form, Failure("Not authenticated"))
        ELSE IF ~canManageJobs(profile)
          THEN Return("updateJob", caller, form, Failure("Not authorized"))
        ELSE IF invalidJobId(id)
          THEN Return("updateJob", caller, form, Failure("Invalid job ID"))
        ELSE IF missingRequired(form) # {}
          THEN Return("updateJob", caller, form,
                      Failure("All fields are required"))
        ELSE IF ~URLParses(form.url)
          THEN Return("updateJob", caller, form,
                      Failure("Please enter a valid URL"))
        ELSE updateJobPersist(caller, user[1], form, id.val, isActive)

UpdateJob ==
    /\ clock < MaxOps
    /\ \E caller \in Callers, form \in UpdateForms : updateJob(caller, form)

(***************************************************************************)
(* app/api/webhooks/new-job: the payload of a delivery.                    *)
(***************************************************************************)
Job(title, company, location, url, shortCode) ==
    [title |-> title, company |-> company, location |-> location, url |-> url,
     short_code |-> shortCode]

\* a body: not JSON at all, JSON without record, or JSON with a record
Payload(json, record) == [json |-> json, record |-> record]

Payloads ==
    { Payload(FALSE, <<>>), Payload(TRUE, <<>>),
      Payload(TRUE, <<Job("UX Designer", "Acme", "Lisbon", U_keep, "k3x")>>),
      Payload(TRUE, <<Job("UX Designer", "Acme", "Lisbon", U_utm, UNDEFINED)>>),
      Payload(TRUE, <<Job("UX Designer", "Acme", "Lisbon", U_bad, "k3x")>>),
      Payload(TRUE, <<Job(UNDEFINED, "Acme", "Lisbon", U_keep, "k3x")>>),
      Payload(TRUE, <<Job("UX Designer", "Acme", UNDEFINED, U_null, UNDEFINED)>>) }

\* the body is JSON with a record that has every required job field
WellFormed(payload) ==
    /\ payload.json
    /\ payload.record # <<>>
    /\ \A f \in {"title", "company", "location"} :
           payload.record[1][f] # UNDEFINED
    /\ URLParses(payload.record[1].url)

\* request.headers.get('x-webhook-secret'): null when the header is absent
SecretHeaders == {NULL, "s3cret", "wrong"}

\* a comparison with != in place of !==, under which null equals undefined
secretMatches_loose(secret, configured) ==
    secret = configured \/ (secret = NULL /\ configured = UNDEFINED)

\* secret !== process.env.SUPABASE_WEBHOOK_SECRET, negated
secretMatches(secret, configured) == secret = configured

\* buildJobUrl throws when new URL(baseUrl) does
buildJobUrlThrows(baseUrl) == ~URLParses(baseUrl)

buildJobUrl(baseUrl) ==
    LET url == URLParse(baseUrl)
    IN  URLToString([url EXCEPT
            !.query = SearchParamsSet(url.query, K_utm_source, "LisboaUX")])

\* what the Slack POST can come to: 2xx, another status, or fetch rejecting
SlackOutcomes == {"ok", "non2xx", "network error"}

\* what the Telegram POST can come to: { ok: true }, { ok: false }, fetch
\* rejecting, or a body that is not JSON
TelegramOutcomes == {"ok", "api error", "network error", "bad json"}

\* escapeHtml(text) throws on a text that is undefined
escapeHtmlThrows(job) ==
    \E f \in {"title", "company", "location"} : job[f] = UNDEFINED

InitWlast ==
    [n |-> 0, secret |-> NULL, payload |-> Payload(FALSE, <<>>), read |-> FALSE,
     status |-> 0, error |-> "", slack |-> "not attempted",
     telegram |-> "not attempted", posts |-> <<>>]

\* the end of a delivery: its response and the POSTs it made, in order
Respond(secret, payload, read, status, error, slack, telegram, posts) ==
    /\ deliveries' = deliveries + 1
    /\ outbox' = outbox \o
                 [i \in 1..Len(posts) |->
                     [delivery |-> deliveries + 1, channel |-> posts[i]]]
    /\ wlast' = [n |-> deliveries + 1, secret |-> secret, payload |-> payload,
                 read |-> read, status |-> status, error |-> error,
                 slack |-> slack, telegram |-> telegram, posts |-> posts]
    /\ UNCHANGED <<env, jobVars, inflight, visit, helper,
                 sideVars>>

(***************************************************************************)
(* lib/telegram: escapeHtml.  A text is the sequence of its characters.    *)
(***************************************************************************)
\* text.replace(/ch/g, by): every occurrence of the character, left to right
RECURSIVE replaceAll(_, _, _)
replaceAll(text, ch, by) ==
    IF text = <<>> THEN <<>>
    ELSE (IF Head(text) = ch THEN by ELSE <<Head(text)>>)
         \o replaceAll(Tail(text), ch, by)

AMP == <<"&", "a", "m", "p", ";">>
LT == <<"&", "l", "t", ";">>
GT == <<"&", "g", "t", ";">>

\* an escapeHtml that replaces & last
escapeHtml_ampLast(text) ==
    replaceAll(replaceAll(replaceAll(text, "<", LT), ">", GT), "&", AMP)

\* text.replace(/&/g, '&amp;').replace(/</g, '&lt;').replace(/>/g, '&gt;')
escapeHtml(text) ==
    replaceAll(replaceAll(replaceAll(text, "&", AMP), "<", LT), ">", GT)

\* the characters a title, company or location is made of here
Chars == {"&", "<", ">", "l", "t", ";"}

\* every text of at most n characters
RECURSIVE TextsUpTo(_)
TextsUpTo(n) ==
    IF n = 0 THEN {<<>>}
    ELSE LET shorter == TextsUpTo(n - 1)
         IN  shorter \cup {<<c>> \o t : c \in Chars, t \in shorter}

Texts == TextsUpTo(MaxText)

InitMessage == [text |-> <<>>, escaped |-> <<>>, built |-> FALSE]

\* one ${escapeHtml(job.field)} of the message template
EscapeField ==
    /\ ~msgText.built
    /\ msgText' = [msgText EXCEPT !.escaped = escapeHtml(msgText.text),
                                  !.built = TRUE]
    /\ UNCHANGED <<env, jobVars, hookVars, inflight, visit, helper, updating,
                   pager, sheet>>

(***************************************************************************)
(* lib/telegram: sendToTelegram, after a successful Slack POST.            *)
(***************************************************************************)
\* a check of the bot token alone
missingTelegramConfig_tokenOnly(botToken, channelId) == Falsy(botToken)

\* !botToken || !channelId
missingTelegramConfig(botToken, channelId) ==
    Falsy(botToken) \/ Falsy(channelId)

\* a sender that POSTs a second time when the first POST did not succeed
sendToTelegram_retrying(secret, payload, job) ==
    IF missingTelegramConfig(env.TELEGRAM_BOT_TOKEN, env.TELEGRAM_CHANNEL_ID)
      THEN Respond(secret, payload, TRUE, 200, "", "sent", "not configured",
                   <<"slack">>)
    ELSE IF escapeHtmlThrows(job)
      THEN Respond(secret, payload, TRUE, 500, "Internal error", "sent",
                   "not attempted", <<"slack">>)
    ELSE \E t \in TelegramOutcomes :
        Respond(secret, payload, TRUE, 200, "", "sent",
                IF t = "ok" THEN "sent" ELSE t,
                IF t = "ok" THEN <<"slack", "telegram">>
                            ELSE <<"slack", "telegram", "telegram">>)

sendToTelegram(secret, payload, job) ==
    IF missingTelegramConfig(env.TELEGRAM_BOT_TOKEN, env.TELEGRAM_CHANNEL_ID)
      THEN Respond(secret, payload, TRUE, 200, "", "sent", "not configured",
                   <<"slack">>)
    ELSE IF escapeHtmlThrows(job)
      \* thrown outside sendToTelegram's try: caught by POST's catch
      THEN Respond(secret, payload, TRUE, 500, "Internal error", "sent",
                   "not attempted", <<"slack">>)
    ELSE \E t \in TelegramOutcomes :
        Respond(secret, payload, TRUE, 200, "", "sent",
                IF t = "ok" THEN "sent" ELSE t, <<"slack", "telegram">>)

(***************************************************************************)
(* app/api/webhooks/new-job: POST.                                         *)
(***************************************************************************)
POST(secret, payload) ==
    IF ~secretMatches(secret, env.SUPABASE_WEBHOOK_SECRET)
      THEN Respond(secret, payload, FALSE, 401, "Unauthorized",
                   "not attempted", "not attempted", <<>>)
    ELSE IF ~payload.json
      \* request.json() throws
      THEN Respond(secret, payload, TRUE, 500, "Internal error",
                   "not attempted", "not attempted", <<>>)
    ELSE IF Falsy(env.SLACK_WEBHOOK_URL)
      THEN Respond(secret, payload, TRUE, 500, "Slack not configured",
                   "not configured", "not attempted", <<>>)
    ELSE IF payload.record = <<>>
      \* job is undefined: reading job.title throws
      THEN Respond(secret, payload, TRUE, 500, "Internal error",
                   "not attempted", "not attempted", <<>>)
    ELSE IF buildJobUrlThrows(payload.record[1].url)
      THEN Respond(secret, payload, TRUE, 500, "Internal error",
                   "not attempted", "not attempted", <<>>)
    ELSE \E s \in SlackOutcomes :
        IF s = "network error"
          THEN Respond(secret, payload, TRUE, 500, "Internal error", s,
                       "not attempted", <<"slack">>)
        ELSE IF s = "non2xx"
          THEN Respond(secret, payload, TRUE, 500, "Slack API error", s,
                       "not attempted", <<"slack">>)
        ELSE sendToTelegram(secret, payload, payload.record[1])

NewJobWebhook ==
    /\ deliveries < MaxDeliveries
    /\ \E secret \in SecretHeaders, payload \in Payloads : POST(secret, payload)

(***************************************************************************)
(* The earlier server actions that are still in the repository: addJob     *)
(* without a role test, points or analytics, and updateJob with .single(). *)
(* The session client's insert is subject to whatever row-level security   *)
(* the database has, which is not part of this repository: it answers a    *)
(* row or an error.                                                        *)
(***************************************************************************)
addJobLegacy(caller, form) ==
    LET user == getUser(caller)
    IN  IF user = <<>>
          THEN Return("addJobLegacy", caller, form,
                      Failure("You must be logged in to add a job"))
        ELSE IF missingRequired(form) # {}
          THEN Return("addJobLegacy", caller, form,
                      Failure("All fields are required"))
        ELSE \E db \in InsertOutcomes :
            IF db # "ok"
              THEN Finish("addJobLegacy", caller, form, Failure("error.message"),
                          db, jobs, <<>>, <<>>, <<>>, <<>>)
              ELSE Finish("addJobLegacy", caller, form, Success, db,
                          Append(jobs, NewRow(form, user[1])), <<>>, <<>>, <<>>,
                          <<"/", "/admin/jobs">>)

AddJobLegacy ==
    /\ clock < MaxOps
    /\ \E caller \in Callers, form \in AddForms : addJobLegacy(caller, form)

updateJobLegacy(caller, form) ==
    LET user == getUser(caller)
        profile == IF user = <<>> THEN <<>> ELSE selectProfile(user[1])
        id == parseInt(form.id)
        isActive == (form.is_active = "true")
    IN  IF user = <<>>
          THEN Return("updateJobLegacy", caller, form,
                      Failure("You must be logged in to update a job"))
        ELSE IF profile = <<>> \/ profile[1].user_role \notin {"admin", "owner"}
          THEN Return("updateJobLegacy", caller, form,
                      Failure("You do not have permission to edit jobs"))
        ELSE IF id.val = 0 \/ id.nan
          THEN Return("updateJobLegacy", caller, form, Failure("Invalid job ID"))
        ELSE IF missingRequired(form) # {}
          THEN Return("updateJobLegacy", caller, form,
                      Failure("All fields are required"))
        ELSE \E db \in {"ok", "error"} :
            \* .single() answers an error when no row matched
            IF db # "ok" \/ id.val \notin 1..Len(jobs)
              THEN Finish("updateJobLegacy", caller, form,
                          Failure("error.message"), db, jobs, <<>>, <<>>, <<>>,
                          <<>>)
              ELSE Finish("updateJobLegacy", caller, form, Success, db,
                          updateRow(id.val, form, isActive, user[1], db),
                          <<>>, <<>>, <<>>, <<"/", "/admin/jobs">>)

UpdateJobLegacy ==
    /\ clock < MaxOps
    /\ \E caller \in Callers, form \in UpdateForms : updateJobLegacy(caller, form)

(***************************************************************************)
(* addJob invocations running side by side.  An invocation yields at each  *)
(* await; the only awaits that write are the insert and the add_points     *)
(* call, and everything after the add_points call is synchronous.  So an   *)
(* invocation is two steps: up to and including the insert, and the rest.  *)
(***************************************************************************)
Procs == 1..MaxCreators

Idle == [stage |-> "idle", caller |-> "anon", error |-> "", job |-> 0,
         awarded |-> FALSE, rowsSeen |-> 0]

\* steps 1 and 2 of addJob: the error it returns before writing, "" if none
addJobRejection(caller, form) ==
    LET user == getUser(caller)
        profile == IF user = <<>> THEN <<>> ELSE selectProfile(user[1])
    IN  IF user = <<>> THEN "Not authenticated"
        ELSE IF ~canManageJobs(profile) THEN "Not authorized"
        ELSE IF missingRequired(form) # {} THEN "All fields are required"
        ELSE IF ~URLParses(form.url) THEN "Please enter a valid URL"
        ELSE ""

\* a call that credits one fixed account, whoever created the job
addPointsCall_toOwner(userId, ok) ==
    [target |-> "olga", amount |-> POINTS_ADD_JOB, ok |-> ok]

\* adminClient.rpc('add_points', { target_user_id: user.id, points_to_add: 100 })
addPointsCall(userId, ok) ==
    [target |-> userId, amount |-> POINTS_ADD_JOB, ok |-> ok]

\* addJob from its start to the answer of the insert
CreateInsert(p) ==
    /\ inflight[p].stage = "idle"
    /\ \E caller \in Callers, form \in {GoodForm, NoForm}, db \in {"ok", "error"} :
        LET rejection == addJobRejection(caller, form)
            row == NewRow(form, NULL)
        IN  IF rejection # ""
              THEN /\ inflight' = [inflight EXCEPT ![p] =
                        [Idle EXCEPT !.stage = "returned", !.caller = caller,
                                     !.error = rejection]]
                   /\ UNCHANGED <<clock, jobs>>
            ELSE IF persistFailed(db)
              THEN /\ inflight' = [inflight EXCEPT ![p] =
                        [Idle EXCEPT !.stage = "returned", !.caller = caller,
                             !.error = "Failed to add job. Please try again."]]
                   /\ UNCHANGED <<clock, jobs>>
            ELSE /\ jobs' = Append(jobs, row)
                 /\ clock' = Now
                 /\ inflight' = [inflight EXCEPT ![p] =
                        [Idle EXCEPT !.stage = "inserted", !.caller = caller,
                                     !.job = row.id]]
    /\ UNCHANGED <<env, profiles, posthogClient, posthogMade, last, hookVars,
                   visit, helper, sideVars>>

\* addJob from the construction of the admin client to its return
CreateAward(p) ==
    /\ inflight[p].stage = "inserted"
    /\ IF createAdminClientThrows
         THEN /\ inflight' = [inflight EXCEPT ![p].stage = "threw"]
              /\ UNCHANGED <<profiles, posthogClient, posthogMade>>
         ELSE \E rpcOk \in BOOLEAN :
              LET call == addPointsCall(inflight[p].caller, rpcOk)
                  events == <<Event("job_added", inflight[p].caller,
                                    inflight[p].job, FALSE, POINTS_ADD_JOB)>>
              IN  /\ profiles' = ApplyRpc(profiles, <<call>>)
                  /\ posthogClient' = getPostHogServer(events)
                  /\ posthogMade' = IF newPostHog(events)
                                      THEN posthogMade + 1 ELSE posthogMade
                  /\ inflight' = [inflight EXCEPT ![p] =
                        [@ EXCEPT !.stage = "returned", !.awarded = rpcOk,
                                  !.rowsSeen = Len(jobs)]]
    /\ UNCHANGED <<env, clock, jobs, last, hookVars, visit, helper,
                 sideVars>>

(***************************************************************************)
(* lib/actions/jobs: updateJob invocations on job 1 that run side by side, *)
(* interleaved at their awaits: the read of the original row, the update,  *)
(* the add_points call.  Every request is a manager's valid request and    *)
(* every call is answered without error.                                   *)
(***************************************************************************)
NotStarted ==
    [stage |-> "idle", caller |-> "anon", isActive |-> FALSE, originalJob |-> <<>>]

\* flips: how often the stored is_active of job 1 went from true to false;
\* awards: how many add_points calls with 200 were made
InitUpdating == [procs |-> [p \in Procs |-> NotStarted], flips |-> 0, awards |-> 0]

\* updateJob up to the answer of the select of the original row
UpdateRead(p) ==
    /\ updating.procs[p].stage = "idle"
    /\ \E caller \in {"ada", "olga"}, isActive \in BOOLEAN :
          updating' = [updating EXCEPT !.procs[p] =
              [stage |-> "read", caller |-> caller, isActive |-> isActive,
               originalJob |-> selectJob(1, "ok")]]
    /\ UNCHANGED <<env, jobVars, hookVars, inflight, visit, helper, msgText,
                   pager, sheet>>

\* updateJob up to the answer of the update
UpdateWrite(p) ==
    LET u == updating.procs[p]
        flipped == Len(jobs) >= 1 /\ jobs[1].is_active /\ ~u.isActive
    IN  /\ u.stage = "read"
        /\ jobs' = updateRow(1, GoodForm, u.isActive, u.caller, "ok")
        /\ clock' = Now
        /\ updating' = [updating EXCEPT
                          !.procs[p].stage = "written",
                          !.flips = IF flipped THEN @ + 1 ELSE @]
        /\ UNCHANGED <<env, profiles, posthogClient, posthogMade, last,
                       hookVars, inflight, visit, helper, msgText, pager,
                       sheet>>

\* updateJob from the test of wasDeactivated to the answer of add_points
UpdateAward(p) ==
    LET u == updating.procs[p]
        call == [target |-> u.caller, amount |-> POINTS_DEACTIVATE, ok |-> TRUE]
    IN  /\ u.stage = "written"
        /\ IF wasDeactivated(u.originalJob, u.isActive)
             THEN /\ profiles' = ApplyRpc(profiles, <<call>>)
                  /\ updating' = [updating EXCEPT
                                    !.procs[p].stage = "returned",
                                    !.awards = @ + 1]
             ELSE /\ profiles' = profiles
                  /\ updating' = [updating EXCEPT !.procs[p].stage = "returned"]
        /\ UNCHANGED <<env, clock, jobs, posthogClient, posthogMade, last,
                       hookVars, inflight, visit, helper, msgText, pager,
                       sheet>>

(***************************************************************************)
(* app/j/[code]: the public job link.                                      *)
(***************************************************************************)
\* the codes asked for: those of the first rows and one no row has
Codes == {1, 2, 9}

HOME == "/"

InitVisit ==
    [n |-> 0, code |-> 0, lookup |-> "", threw |-> FALSE, to |-> "",
     url |-> U_null]

\* redirect(path): the response leaves for a path of this site
RedirectHome(code, lookup) ==
    [n |-> visit.n + 1, code |-> code, lookup |-> lookup, threw |-> FALSE,
     to |-> HOME, url |-> U_null]

\* redirect(destinationUrl.toString())
RedirectTo(code, lookup, url) ==
    [n |-> visit.n + 1, code |-> code, lookup |-> lookup, threw |-> FALSE,
     to |-> "url", url |-> url]

\* a lookup that only finds jobs that are active
selectByShortCode_activeOnly(code) ==
    {i \in 1..Len(jobs) : jobs[i].short_code = code /\ jobs[i].is_active}

\* from('jobs').select('url').eq('short_code', code).single(): the rows
\* that match; single() answers an error unless there is exactly one
selectByShortCode(code) ==
    {i \in 1..Len(jobs) : jobs[i].short_code = code}

GET(code) ==
    \E outcome \in {"ok", "error"} :
        LET rows == selectByShortCode(code)
            error == outcome = "error" \/ Cardinality(rows) # 1
        IN  IF error
              THEN visit' = RedirectHome(code, outcome)
            ELSE LET job == jobs[CHOOSE i \in rows : TRUE]
                 IN  IF ~URLParses(job.url)
                       \* new URL(job.url) throws
                       THEN visit' = [RedirectHome(code, outcome) EXCEPT
                                        !.threw = TRUE, !.to = ""]
                       ELSE LET destinationUrl == URLParse(job.url)
                                q == SearchParamsSet(destinationUrl.query,
                                                     K_utm_source, "LisboaUX")
                            IN  visit' = RedirectTo(code, outcome,
                                    URLToString([destinationUrl EXCEPT
                                                   !.query = q]))

JobLink ==
    /\ visit.n < MaxVisits
    /\ \E code \in Codes : GET(code)
    /\ UNCHANGED <<env, jobVars, hookVars, inflight, helper,
                 sideVars>>

\* the server action embedded in the add-job page: it throws where addJob
\* returns an error, and it does not test that the url parses
addJobPage(caller, form) ==
    LET user == getUser(caller)
        profile == IF user = <<>> THEN <<>> ELSE selectProfile(user[1])
    IN  IF user = <<>> \/ ~canManageJobs(profile) \/ missingRequired(form) # {}
          THEN Return("addJobPage", caller, form, Threw)
        ELSE \E db \in InsertOutcomes :
            LET jobs2 == IF db = "ok" THEN Append(jobs, NewRow(form, NULL))
                         ELSE jobs
            IN  IF db # "ok" \/ createAdminClientThrows
                  THEN Finish("addJobPage", caller, form, Threw, db, jobs2,
                              <<>>, <<>>, <<>>, <<>>)
                ELSE \E rpcOk \in BOOLEAN :
                    Finish("addJobPage", caller, form, Success, db, jobs2, <<>>,
                           <<addPointsCall(user[1], rpcOk)>>,
                           <<Event("job_added", user[1], Len(jobs2), FALSE,
                                   POINTS_ADD_JOB)>>,
                           <<"/", "/admin">>)

AddJobPage ==
    /\ clock < MaxOps
    /\ \E caller \in {"ada", "uma"},
          form \in {GoodForm, Form("UX Designer", "Acme", "Lisbon", U_bad)} :
            addJobPage(caller, form)

\* the URLs an admin submits before the links are followed
LinkForms ==
    { Form("UX Designer", "Acme", "Lisbon", u) : u \in {U_keep, U_utm, U_twice} }

AddJobForLink ==
    /\ clock < MaxOps
    /\ \E caller \in {"ada", "uma"}, form \in LinkForms : addJob(caller, form)

\* an admin's updates of job 1 before and between the visits: it is
\* activated, deactivated, and its URL replaced
LinkUpdateForms ==
    { UpdateForm(Form("UX Designer", "Acme", "Lisbon", u), <<"1">>, a) :
        u \in {U_keep, U_twice}, a \in {"true", "false"} }

UpdateJobForLink ==
    /\ clock < MaxOps
    /\ \E form \in LinkUpdateForms : updateJob("ada", form)

(***************************************************************************)
(* The URL helpers of lib/utils, called on their own.                      *)
(***************************************************************************)
\* parameter names: two under utm_, one listed name, one that only begins
\* like a listed name, one plain
ParamKeys ==
    { K_utm_source, <<"utm_", "medium">>, <<"ref">>, <<"ref", "errer">>, K_id }

ParamPairs == { <<k, v>> : k \in ParamKeys, v \in {"1", "2"} }

RECURSIVE Queries(_)
Queries(n) ==
    IF n = 0 THEN {<<>>}
    ELSE LET shorter == Queries(n - 1)
         IN  shorter \cup {Append(q, p) : q \in shorter, p \in ParamPairs}

\* the strings the helpers are given: absolute URLs with and without a path,
\* strings that new URL rejects, and the empty string
UrlInputs ==
    { UrlString(abs, slash, q) :
        abs \in BOOLEAN, slash \in BOOLEAN, q \in Queries(MaxParams) }
    \cup {U_empty}

Helpers == {"cleanTrackingParams", "removeAllQueryParams", "buildJobUrl",
            "hasQueryParams"}

InitHelper ==
    [fn |-> "", input |-> U_null, threw |-> FALSE, out |-> U_null,
     flag |-> FALSE, againThrew |-> FALSE, again |-> U_null]

\* one call of a helper, and the same helper called on what it returned
Called(fn, input, threw, out, flag) ==
    [fn |-> fn, input |-> input, threw |-> threw,
     out |-> out, flag |-> flag, againThrew |-> FALSE, again |-> U_null]

CallHelper(fn, input) ==
    CASE fn = "cleanTrackingParams" ->
           helper' = [Called(fn, input, FALSE, cleanTrackingParams(input), FALSE)
                        EXCEPT !.again = cleanTrackingParams(
                                             cleanTrackingParams(input))]
      [] fn = "removeAllQueryParams" ->
           helper' = [Called(fn, input, FALSE, removeAllQueryParams(input), FALSE)
                        EXCEPT !.again = removeAllQueryParams(
                                             removeAllQueryParams(input))]
      [] fn = "hasQueryParams" ->
           helper' = Called(fn, input, FALSE, U_null, hasQueryParams(input))
      [] fn = "buildJobUrl" ->
           IF buildJobUrlThrows(input)
             THEN helper' = [Called(fn, input, TRUE, U_null, FALSE)
                               EXCEPT !.againThrew = TRUE]
             ELSE helper' = [Called(fn, input, FALSE, buildJobUrl(input), FALSE)
                               EXCEPT !.again = buildJobUrl(buildJobUrl(input))]

\* the string at hand is given to one of the helpers
UrlHelper ==
    /\ helper.fn = ""
    /\ helper.input # U_null
    /\ \E fn \in Helpers : CallHelper(fn, helper.input)
    /\ UNCHANGED <<env, jobVars, hookVars, inflight, visit,
                 sideVars>>

(***************************************************************************)
(* components/FilterableJobBoard: JobList and its pagination.  The list is *)
(* given by its length; the ?page parameter by what Number() reads in it.  *)
(***************************************************************************)
\* the jobsPerPage prop the list is rendered with
jobsPerPage == 2

\* searchParams.get('page'): null, a text that is no number, or an integer
PageParam(given, nan, val) == [given |-> given, nan |-> nan, val |-> val]

PageParams ==
    { PageParam(NULL, FALSE, 0), PageParam("text", TRUE, 0) }
    \cup { PageParam("text", FALSE, v) : v \in (0 - 2)..(MaxListed + 1) }

\* Number(x): 0 for null, NaN for a text that is no number
Number(param) ==
    IF param.given = NULL THEN [nan |-> FALSE, val |-> 0]
    ELSE [nan |-> param.nan, val |-> param.val]

Min(a, b) == IF a <= b THEN a ELSE b
Max(a, b) == IF a >= b THEN a ELSE b

\* Number(searchParams.get('page')) || 1
urlPage == LET n == Number(pager.page) IN IF n.nan \/ n.val = 0 THEN 1 ELSE n.val

\* pendingPage ?? urlPage
displayPage == IF pager.pendingPage # <<>> THEN pager.pendingPage[1] ELSE urlPage

\* Math.ceil(totalJobs / jobsPerPage)
totalPages == (pager.totalJobs + jobsPerPage - 1) \div jobsPerPage

\* Math.min(displayPage, Math.max(totalPages, 1))
safePage == Min(displayPage, Max(totalPages, 1))

\* jobs.slice(startIndex, endIndex), as the positions (from 0) it keeps.
\* Array.prototype.slice counts a negative index from the end and brings
\* both ends into 0..length
visibleJobs ==
    LET startIndex == (safePage - 1) * jobsPerPage
        endIndex == startIndex + jobsPerPage
        length == pager.totalJobs
        bound(k) == IF k < 0 THEN Max(length + k, 0) ELSE Min(k, length)
    IN  { k \in 0..(length - 1) : k >= bound(startIndex) /\ k < bound(endIndex) }

InitPager == [page |-> PageParam(NULL, FALSE, 0), totalJobs |-> 0, pendingPage |-> <<>>]

\* the board is opened at a URL, with the jobs it has
OpenBoard ==
    /\ \E page \in PageParams, totalJobs \in 0..MaxListed :
          pager' = [page |-> page, totalJobs |-> totalJobs, pendingPage |-> <<>>]
    /\ UNCHANGED <<env, jobVars, hookVars, inflight, visit, helper, msgText,
                   updating, sheet>>

\* goToPage(page) from the Previous and Next buttons, timeout included
goToPage(page) ==
    LET validPage == Max(1, Min(page, totalPages))
    IN  pager' = [pager EXCEPT !.pendingPage = <<validPage>>]

GoToPage ==
    /\ \E page \in {safePage - 1, safePage + 1} : goToPage(page)
    /\ UNCHANGED <<env, jobVars, hookVars, inflight, visit, helper, msgText,
                   updating, sheet>>

\* router.push has changed ?page, and the effect clears pendingPage
UrlCatchesUp ==
    /\ pager.pendingPage # <<>>
    /\ pager' = [pager EXCEPT
                   !.page = IF pager.pendingPage[1] = 1
                              THEN PageParam(NULL, FALSE, 0)
                              ELSE PageParam("text", FALSE, pager.pendingPage[1]),
                   !.pendingPage = <<>>]
    /\ UNCHANGED <<env, jobVars, hookVars, inflight, visit, helper, msgText,
                   updating, sheet>>

\* the parent renders the list with other jobs (a filter, a refresh)
JobsChange ==
    /\ \E totalJobs \in 0..MaxListed : pager' = [pager EXCEPT !.totalJobs = totalJobs]
    /\ UNCHANGED <<env, jobVars, hookVars, inflight, visit, helper, msgText,
                   updating, sheet>>

(***************************************************************************)
(* app/admin/jobs: JobsTableWithSheet.  selectedJob is a job id, 0 for     *)
(* null; timers counts the setTimeout callbacks set and not yet run.       *)
(***************************************************************************)
InitSheet == [selectedJob |-> 0, sheetOpen |-> FALSE, timers |-> 0, clicked |-> FALSE]

\* handleRowClick(job)
handleRowClick(job) ==
    sheet' = [sheet EXCEPT !.selectedJob = job, !.sheetOpen = TRUE,
                           !.clicked = TRUE]

\* handleSheetOpenChange(false): from the sheet's own close, or onSuccess
handleSheetClose ==
    sheet' = [sheet EXCEPT !.sheetOpen = FALSE, !.timers = @ + 1]

RowClick ==
    /\ \E job \in 1..MaxJobs : handleRowClick(job)
    /\ UNCHANGED <<env, jobVars, hookVars, inflight, visit, helper, msgText,
                   updating, pager>>

\* the sheet is rendered only with a job, and it closes only when open
SheetClose ==
    /\ sheet.sheetOpen /\ sheet.selectedJob # 0
    /\ sheet.timers < MaxTimers
    /\ handleSheetClose
    /\ UNCHANGED <<env, jobVars, hookVars, inflight, visit, helper, msgText,
                   updating, pager>>

\* 200 ms later: () => setSelectedJob(null)
ClearSelection ==
    /\ sheet.timers > 0
    /\ sheet' = [sheet EXCEPT !.selectedJob = 0, !.timers = @ - 1]
    /\ UNCHANGED <<env, jobVars, hookVars, inflight, visit, helper, msgText,
                   updating, pager>>

(***************************************************************************)
(* The specification of the job mutation service.                          *)
(***************************************************************************)
\* the deployments considered: fully configured, without the service-role
\* key, without the analytics key
JobsEnv(serviceKey, posthogKey) ==
    [NEXT_PUBLIC_SUPABASE_URL |-> "https://db",
     SUPABASE_SERVICE_ROLE_KEY |-> serviceKey,
     NEXT_PUBLIC_POSTHOG_KEY |-> posthogKey,
     SUPABASE_WEBHOOK_SECRET |-> "s3cret",
     SLACK_WEBHOOK_URL |-> "https://hooks.slack",
     TELEGRAM_BOT_TOKEN |-> "tok", TELEGRAM_CHANNEL_ID |-> "@ux_jobs"]

JobsEnvs ==
    { JobsEnv("service-key", "phc"), JobsEnv(UNDEFINED, "phc"),
      JobsEnv("service-key", UNDEFINED) }

\* a row that was in the table before this deployment started
SeedRow(active) ==
    [id |-> 1, title |-> "UX Designer", company |-> "Acme",
     location |-> "Lisbon", url |-> U_keep, is_active |-> active,
     submitted_on |-> 0, short_code |-> 1, created_by |-> NULL,
     modified_by |-> NULL, updated_at |-> 0]

InitStore ==
    /\ clock = 0
    /\ jobs \in {<<>>, <<SeedRow(TRUE)>>, <<SeedRow(FALSE)>>}
    /\ profiles = InitProfiles
    /\ posthogClient = NULL
    /\ posthogMade = 0
    /\ last = InitLast
    /\ deliveries = 0
    /\ outbox = <<>>
    /\ wlast = InitWlast
    /\ inflight = [p \in Procs |-> Idle]
    /\ visit = InitVisit
    /\ updating = InitUpdating
    /\ pager = InitPager
    /\ sheet = InitSheet

Init ==
    InitStore /\ env \in JobsEnvs /\ helper = InitHelper /\ msgText = InitMessage

Next == AddJob \/ UpdateJob

Spec == Init /\ [][Next]_vars

\* every server action of the repository, the earlier ones included
NextAll == AddJob \/ UpdateJob \/ AddJobLegacy \/ UpdateJobLegacy

SpecAll == Init /\ [][NextAll]_vars

\* addJob invocations interleaved at their awaits
NextCreators == \E p \in Procs : CreateInsert(p) \/ CreateAward(p)

\* the public link followed while an admin updates the job
NextLinkUpdates == UpdateJobForLink \/ JobLink

SpecLinkUpdates == Init /\ [][NextLinkUpdates]_vars

\* the paginated job list
NextPages == OpenBoard \/ GoToPage \/ UrlCatchesUp \/ JobsChange

SpecPages == Init /\ [][NextPages]_vars

\* the admin jobs table and its edit sheet
NextSheet == RowClick \/ SheetClose \/ ClearSelection

SpecSheet == Init /\ [][NextSheet]_vars

SpecCreators == Init /\ [][NextCreators]_vars

\* updateJob invocations interleaved at their awaits, fully configured
InitUpdaters ==
    /\ InitStore
    /\ env = JobsEnv("service-key", "phc")
    /\ helper = InitHelper /\ msgText = InitMessage

NextUpdaters ==
    \E p \in Procs : UpdateRead(p) \/ UpdateWrite(p) \/ UpdateAward(p)

SpecUpdaters == InitUpdaters /\ [][NextUpdaters]_vars

\* jobs are added and their public links followed
NextLinks == AddJobForLink \/ AddJobPage \/ JobLink

SpecLinks == Init /\ [][NextLinks]_vars

\* the URL helpers called on every string of UrlInputs
InitUrls ==
    /\ InitStore
    /\ env = JobsEnv("service-key", "phc")
    /\ jobs = <<>>
    /\ helper \in {[InitHelper EXCEPT !.input = u] : u \in UrlInputs}
    /\ msgText = InitMessage

NextUrls == UrlHelper

SpecUrls == InitUrls /\ [][NextUrls]_vars

(***************************************************************************)
(* The specification of the message escaping: the text is any text of the  *)
(* bounded alphabet, and escapeHtml is applied to it once.                 *)
(***************************************************************************)
InitEscape ==
    /\ InitStore
    /\ env = JobsEnv("service-key", "phc")
    /\ jobs = <<>>
    /\ helper = InitHelper
    /\ msgText \in {[InitMessage EXCEPT !.text = t] : t \in Texts}

NextEscape == EscapeField

SpecEscape == InitEscape /\ [][NextEscape]_vars

(***************************************************************************)
(* The specification of the webhook.                                       *)
(***************************************************************************)
WebhookEnv(secret, slack, token, channel) ==
    [NEXT_PUBLIC_SUPABASE_URL |-> "https://db",
     SUPABASE_SERVICE_ROLE_KEY |-> "service-key",
     NEXT_PUBLIC_POSTHOG_KEY |-> "phc",
     SUPABASE_WEBHOOK_SECRET |-> secret, SLACK_WEBHOOK_URL |-> slack,
     TELEGRAM_BOT_TOKEN |-> token, TELEGRAM_CHANNEL_ID |-> channel]

WebhookEnvs ==
    { WebhookEnv(secret, slack, token, channel) :
        secret \in {UNDEFINED, "s3cret"},
        slack \in {UNDEFINED, "https://hooks.slack"},
        token \in {UNDEFINED, "tok"}, channel \in {UNDEFINED, "@ux_jobs"} }

InitWebhook ==
    /\ InitStore /\ env \in WebhookEnvs
    /\ helper = InitHelper /\ msgText = InitMessage

NextWebhook == NewJobWebhook

SpecWebhook == InitWebhook /\ [][NextWebhook]_vars

(***************************************************************************)
(* Claims about the webhook (checked under SpecWebhook).                   *)
(***************************************************************************)
\* the last delivery passed the secret check
Authentic == wlast.n > 0 /\ wlast.secret = env.SUPABASE_WEBHOOK_SECRET

\* C1: for every delivery that passes the secret check with a well-formed
\* payload, both the Slack send and the Telegram send are attempted (or
\* reported as a configuration error of that channel alone), whichever of
\* them fails, and no channel failure escapes as an exception.
C1_ChannelsIndependent ==
    (Authentic /\ WellFormed(wlast.payload)) =>
        /\ wlast.slack # "not attempted"
        /\ wlast.telegram # "not attempted"
        /\ wlast.error # "Internal error"

\* C2: for a delivery with a valid secret and a well-formed payload whose
\* Slack POST was answered (2xx or not), the response is 200 whatever the
\* per-channel outcomes are.
C2_AcceptedWhateverTheChannelsDid ==
    (Authentic /\ WellFormed(wlast.payload)
        /\ wlast.slack \in {"sent", "non2xx"}) => wlast.status = 200

\* C3: a delivery whose x-webhook-secret header does not equal the configured
\* secret is answered with 401, its payload is not read, and no Slack or
\* Telegram POST is ever made for it.
C3_WrongSecretDoesNothing ==
    (wlast.n > 0 /\ wlast.secret # env.SUPABASE_WEBHOOK_SECRET) =>
        /\ wlast.status = 401
        /\ ~wlast.read
        /\ wlast.posts = <<>>
        /\ wlast.slack = "not attempted" /\ wlast.telegram = "not attempted"
        /\ \A i \in 1..Len(outbox) : outbox[i].delivery # wlast.n

\* C3's case: a wrong secret on a delivery that would otherwise have been
\* sent to both channels, after an earlier delivery was sent
C3_Witness ==
    /\ wlast.n > 1
    /\ wlast.secret = "wrong"
    /\ WellFormed(wlast.payload)
    /\ ~Falsy(env.SLACK_WEBHOOK_URL) /\ ~Falsy(env.TELEGRAM_BOT_TOKEN)
    /\ ~Falsy(env.TELEGRAM_CHANNEL_ID)
    /\ wlast.status = 401
    /\ outbox # <<>>

\* the POSTs made to a channel, over all deliveries
PostsTo(channel) == {i \in 1..Len(outbox) : outbox[i].channel = channel}

Malformed(payload) ==
    \/ ~payload.json
    \/ payload.record = <<>>
    \/ \E f \in {"title", "company", "location"} :
           payload.record[1][f] = UNDEFINED
    \/ payload.record[1].url = U_null

\* C18: a delivery with a valid secret but a malformed payload (a body that
\* is not JSON, no record, or a record without a required job field) is
\* rejected and no Slack POST and no Telegram send is made for it.  The
\* rejection asked for is a 400; what is stated here is the part that does
\* not depend on the status code chosen: the response is an error response
\* and nothing was sent.
C18_MalformedRejected ==
    (Authentic /\ Malformed(wlast.payload)) =>
        /\ wlast.status >= 400
        /\ wlast.posts = <<>>
        /\ \A i \in 1..Len(outbox) : outbox[i].delivery # wlast.n

\* the positions in the outbox of the POSTs one delivery made to a channel
PostsOf(delivery, channel) ==
    {i \in 1..Len(outbox) :
        outbox[i].delivery = delivery /\ outbox[i].channel = channel}

\* C22: within one delivery each channel is POSTed at most once (a failed
\* channel is not tried again), and a Telegram POST is made only after the
\* Slack POST of the same delivery.
C22_SlackThenTelegramOnce ==
    \A d \in 1..deliveries :
        /\ Cardinality(PostsOf(d, "slack")) <= 1
        /\ Cardinality(PostsOf(d, "telegram")) <= 1
        /\ \A t \in PostsOf(d, "telegram") :
              \E k \in PostsOf(d, "slack") : k < t

\* C22's case: a second delivery whose Slack POST succeeded and whose
\* Telegram POST failed
C22_Witness ==
    /\ wlast.n > 1
    /\ wlast.slack = "sent"
    /\ wlast.telegram \in {"api error", "network error", "bad json"}
    /\ PostsOf(wlast.n, "telegram") # {}
    /\ PostsOf(wlast.n - 1, "slack") # {}

(***************************************************************************)
(* Claims about the job mutation service (checked under Spec, and under    *)
(* SpecAll where the earlier actions matter).                              *)
(***************************************************************************)
RoleOf(caller) ==
    IF caller \in DOMAIN profiles THEN profiles[caller].user_role ELSE "none"

Invoked == clock' # clock

AuthErrors ==
    { "Not authenticated", "Not authorized",
      "You must be logged in to add a job",
      "You must be logged in to update a job",
      "You do not have permission to edit jobs" }

PersistErrors ==
    { "Failed to add job. Please try again.",
      "Failed to update job. Please try again." }

\* the required fields a request leaves out or leaves empty
MissingFields(form) ==
    {f \in {"title", "company", "location"} : form[f] \in {NULL, ""}}
        \cup (IF form.url.given \in {NULL, ""} THEN {"url"} ELSE {})

\* the job id a request's id field is read as
IdOf(form) == parseInt(form.id)

\* the caller of the invocation just made is an admin or an owner
ByManager == RoleOf(last'.caller) \in {"admin", "owner"}

\* the required fields are all there and, for an update, so is a usable id
WellFormedRequest ==
    /\ MissingFields(last'.form) = {}
    /\ last'.form.url.abs
    /\ last'.op \in {"updateJob", "updateJobLegacy"} =>
           (~IdOf(last'.form).nan /\ IdOf(last'.form).val # 0)

\* C4: a creation or update request from a caller with no session, with no
\* profile, or whose role is not admin or owner does not succeed (an
\* otherwise well-formed one fails with an authentication/authorization
\* error); it inserts and changes no row, and no points, analytics event or
\* cache invalidation results from it.
C4_OnlyManagersMutate ==
    [][ (Invoked /\ ~ByManager) =>
            /\ ~last'.result.success
            /\ WellFormedRequest => last'.result.error \in AuthErrors
            /\ jobs' = jobs
            /\ profiles' = profiles
            /\ last'.rpc = <<>> /\ last'.captured = <<>> /\ last'.paths = <<>>
      ]_vars

\* the row a successful creation or update wrote
Written ==
    IF last.op = "addJob" THEN jobs[Len(jobs)] ELSE jobs[IdOf(last.form).val]

\* C5: after a successful creation or update the URL stored in the row it
\* wrote equals clean(inputUrl) and has no tracking parameter, whatever URL
\* the request carried.
C5_StoredUrlsClean ==
    ( /\ clock > 0
      /\ last.op \in {"addJob", "updateJob"}
      /\ last.result.success
      /\ last.op = "updateJob" => IdOf(last.form).val \in 1..Len(jobs) ) =>
        /\ Written.url = cleanTrackingParams(last.form.url)
        /\ \A k \in ParamNames(Written.url) : ~isTrackingParam(k)

\* the amounts of the add_points calls of the invocation just made
AmountsCalled == [i \in 1..Len(last'.rpc) |-> last'.rpc[i].amount]

\* C6: a successful creation makes one add_points call, with 100; a
\* successful update that changes the stored is_active from true to false
\* makes one add_points call, with 200; every other successful update makes
\* no add_points call.
C6_PointsFixed ==
    [][ (Invoked /\ last'.result.success) =>
            IF last'.op = "addJob"
              THEN AmountsCalled = <<100>>
            ELSE IF /\ IdOf(last'.form).val \in 1..Len(jobs)
                    /\ jobs[IdOf(last'.form).val].is_active
                    /\ ~jobs'[IdOf(last'.form).val].is_active
              THEN AmountsCalled = <<200>>
            ELSE AmountsCalled = <<>>
      ]_vars

\* the last invocation was an addJob that inserted its row
Inserted ==
    /\ clock > 0
    /\ last.op = "addJob"
    /\ \E i \in 1..Len(jobs) : jobs[i].submitted_on = clock

\* C7: when the points award fails during a creation (the add_points call
\* returns an error, or the adapter throws before calling), addJob still
\* reports success and the inserted row exists.
C7_PointsFailureIsSoft ==
    (Inserted /\ (last.rpc = <<>> \/ ~last.rpc[1].ok)) =>
        (last.result.success /\ ~last.result.threw)

\* C8: when the insert of addJob or the update of updateJob answers an
\* error, the action returns its persistence error and nothing later runs:
\* no add_points call and no change of points, no analytics event, no
\* revalidated path.
C8_PersistFailureStops ==
    [][ (Invoked /\ last'.op \in {"addJob", "updateJob"} /\ last'.db = "error") =>
            /\ last'.result.error \in PersistErrors
            /\ ~last'.result.success /\ ~last'.result.threw
            /\ last'.rpc = <<>>
            /\ profiles' = profiles
            /\ last'.captured = <<>> /\ last'.sent = <<>>
            /\ last'.paths = <<>>
      ]_vars

\* C8's case: the update that failed asked to deactivate a job that is
\* active, which would have earned 200 points
C8_Witness ==
    /\ last.op = "updateJob"
    /\ last.db = "error"
    /\ last.form.is_active = "false"
    /\ last.original # <<>>
    /\ last.original[1].is_active
    /\ ~createAdminClientThrows

C10_UpdateNeedsExistingJob ==
    ( clock > 0 /\ last.op = "updateJob"
        /\ (IdOf(last.form).nan \/ IdOf(last.form).val \notin 1..Len(jobs)) ) =>
        /\ ~last.result.success
        /\ last.rpc = <<>> /\ last.captured = <<>> /\ last.paths = <<>>


\* the points the add_points calls of one invocation gave to an account
RECURSIVE PointsGiven(_, _)
PointsGiven(calls, account) ==
    IF calls = <<>> THEN 0
    ELSE (IF Head(calls).ok /\ Head(calls).target = account
            THEN Head(calls).amount ELSE 0)
         + PointsGiven(Tail(calls), account)

\* C19: across addJob and updateJob a profile's points never decrease, and
\* every change of points is an increase made by an add_points call through
\* the service-role client: the change equals what the calls of that
\* invocation that returned no error gave to that profile, the service-role
\* client could be created, and nothing else of the profile is written.
C19_PointsOnlyGrowByAward ==
    [][ \A u \in DOMAIN profiles :
          /\ profiles'[u].points >= profiles[u].points
          /\ profiles'[u].user_role = profiles[u].user_role
          /\ profiles'[u].points # profiles[u].points =>
                /\ Invoked
                /\ last'.op \in {"addJob", "updateJob"}
                /\ ~Falsy(env.NEXT_PUBLIC_SUPABASE_URL)
                /\ ~Falsy(env.SUPABASE_SERVICE_ROLE_KEY)
                /\ \A i \in 1..Len(last'.rpc) : last'.rpc[i].amount > 0
                /\ profiles'[u].points - profiles[u].points
                     = PointsGiven(last'.rpc, u)
      ]_vars

\* C19's case: an account that was awarded for a creation and then for a
\* deactivation
C19_Witness ==
    /\ last.op = "updateJob"
    /\ last.rpc # <<>> /\ last.rpc[1].ok
    /\ profiles[last.rpc[1].target].points = POINTS_ADD_JOB + POINTS_DEACTIVATE

\* C20: a job row keeps its identifier and its submission timestamp for
\* ever: every step, an updateJob and a deactivation included, leaves id
\* and submitted_on of every existing row unchanged, and no step removes a
\* row (the table only grows, and a new row takes an identifier no row has).
C20_RowsStayAndKeepIdentity ==
    [][ /\ Len(jobs') >= Len(jobs)
        /\ \A i \in 1..Len(jobs) :
              /\ jobs'[i].id = jobs[i].id
              /\ jobs'[i].submitted_on = jobs[i].submitted_on
        /\ \A i \in (Len(jobs) + 1)..Len(jobs') :
              \A j \in 1..Len(jobs) : jobs'[i].id # jobs[j].id
      ]_vars

\* C20's case: a row created by addJob and then deactivated by updateJob
C20_Witness ==
    /\ last.op = "updateJob" /\ last.result.success /\ last.db = "ok"
    /\ IdOf(last.form).val \in 1..Len(jobs)
    /\ ~Written.is_active
    /\ Written.submitted_on > 0
    /\ Written.updated_at > Written.submitted_on

\* the paths the last invocation passed to revalidatePath
Revalidated == {last.paths[i] : i \in 1..Len(last.paths)}

\* C21: after every successful creation and every successful update the
\* pages that list jobs, the home page '/' and the admin job list
\* '/admin/jobs', have been revalidated when the action returns success.
C21_ListingPagesRevalidated ==
    (clock > 0 /\ last.op \in {"addJob", "updateJob"} /\ last.result.success) =>
        {"/", "/admin/jobs"} \subseteq Revalidated

\* the errors the validation of a request reports
ValidationErrors ==
    {"Invalid job ID", "All fields are required", "Please enter a valid URL"}

\* C23: addJob and updateJob authenticate, then authorize, then validate,
\* then persist, and report the first failing step: a caller with no
\* session gets 'Not authenticated' whatever the form holds, a caller with
\* a session whose role is not admin or owner gets 'Not authorized'
\* whatever the form holds, a validation error is reported only to a
\* manager, and a write is attempted only for a manager's valid request;
\* a request stopped by a check writes no row, calls no add_points, emits no
\* event and revalidates nothing.
C23_ChecksInOrder ==
    [][ (Invoked /\ last'.op \in {"addJob", "updateJob"}) =>
            /\ getUser(last'.caller) = <<>> =>
                  last'.result = Failure("Not authenticated")
            /\ (getUser(last'.caller) # <<>> /\ ~ByManager) =>
                  last'.result = Failure("Not authorized")
            /\ last'.result.error \in ValidationErrors => ByManager
            /\ last'.db # "none" => (ByManager /\ WellFormedRequest)
            /\ last'.result.error \in AuthErrors \cup ValidationErrors =>
                  /\ last'.db = "none"
                  /\ jobs' = jobs /\ profiles' = profiles
                  /\ last'.rpc = <<>> /\ last'.captured = <<>>
                  /\ last'.sent = <<>> /\ last'.paths = <<>>
      ]_vars

\* C23's case: a caller with no session whose form lacks fields was
\* answered with the authentication error
C23_Witness ==
    /\ clock > 0
    /\ last.op \in {"addJob", "updateJob"}
    /\ last.caller = "anon"
    /\ missingRequired(last.form) # {}
    /\ last.result.error = "Not authenticated"

C24_OneClient ==
    /\ clock = 2
    /\ ~Falsy(env.NEXT_PUBLIC_POSTHOG_KEY)
    /\ last.sent # <<>> /\ last.result.success
    /\ posthogMade = 1
    /\ \E u \in DOMAIN profiles : profiles[u].points > POINTS_DEACTIVATE

C27_EventReportsAward ==
    (clock > 0 /\ last.op \in {"addJob", "updateJob"}) =>
        \A i \in 1..Len(last.sent) :
            last.sent[i].points_awarded
                = PointsGiven(last.rpc, last.sent[i].distinctId)

(***************************************************************************)
(* Claims about invocations running side by side (SpecCreators).           *)
(***************************************************************************)
\* the invocations whose insert was accepted
Inserters == {p \in Procs : inflight[p].job # 0}

\* the invocations whose add_points call for this account returned no error
AwardedTo(account) ==
    {p \in Procs : inflight[p].awarded /\ inflight[p].caller = account}

\* C11: however concurrent creations interleave, every creation whose insert
\* was accepted has a job row of its own, with its own identifier, and every
\* account's points have grown by exactly 100 for each of its creations
\* whose add_points call succeeded: no increment is lost or applied twice.
C11_CreationsDoNotInterfere ==
    /\ \A p \in Inserters :
           /\ inflight[p].job \in 1..Len(jobs)
           /\ jobs[inflight[p].job].id = inflight[p].job
    /\ \A p, q \in Inserters : p # q => inflight[p].job # inflight[q].job
    /\ Cardinality({i \in 1..Len(jobs) : jobs[i].submitted_on > 0})
           = Cardinality(Inserters)
    /\ \A account \in DOMAIN profiles :
           profiles[account].points
               = InitProfiles[account].points
                   + 100 * Cardinality(AwardedTo(account))

\* C11's case: two creations by the same admin have both returned with their
\* points awarded, and the one that inserted first was awarded only after
\* the other had inserted
C11_Witness ==
    \E p, q \in Procs :
        /\ p # q
        /\ inflight[p].stage = "returned" /\ inflight[q].stage = "returned"
        /\ inflight[p].awarded /\ inflight[q].awarded
        /\ inflight[p].caller = "ada" /\ inflight[q].caller = "ada"
        /\ inflight[p].job < inflight[q].job
        /\ inflight[p].rowsSeen >= inflight[q].job
        /\ profiles["ada"].points = 200


\* C26: however concurrent updateJob invocations on one job interleave,
\* once they have all returned the number of 200-point awards equals the
\* number of times the stored is_active went from true to false: two
\* requests that both deactivate one active job make one award.
C26_OneAwardPerDeactivation ==
    (\A p \in Procs : updating.procs[p].stage \in {"idle", "returned"}) =>
        updating.awards = updating.flips

(***************************************************************************)
(* Claims about the public job link (SpecLinks).                           *)
(***************************************************************************)
\* the values a query gives to a name, in order
ValuesOf(query, key) ==
    LET Named(p) == p[1] = key
        hits == SelectSeq(query, Named)
    IN  [i \in 1..Len(hits) |-> hits[i][2]]

\* a query without the pairs of a name
Without(query, key) ==
    LET Other(p) == p[1] # key IN SelectSeq(query, Other)

\* the rows a short code names
RowsWithCode(code) == {i \in 1..Len(jobs) : jobs[i].short_code = code}

\* C12: GET /j/{code} never ends in an error; for a code no job has it redirects to
\* '/'; for the code of a job (its row read without error) it redirects to
\* that job's stored URL with utm_source=LisboaUX set exactly once, the
\* other parameters being those of the stored URL, in their order.
C12_LinkRedirects ==
    [][ visit'.n # visit.n =>
          /\ ~visit'.threw
          /\ RowsWithCode(visit'.code) = {} => visit'.to = "/"
          /\ (RowsWithCode(visit'.code) # {} /\ visit'.lookup = "ok") =>
                 /\ visit'.to = "url"
                 /\ visit'.url.given = "text" /\ visit'.url.abs
                 /\ ValuesOf(visit'.url.query, K_utm_source) = <<"LisboaUX">>
                 /\ \A i \in RowsWithCode(visit'.code) :
                        Without(visit'.url.query, K_utm_source)
                            = Without(jobs[i].url.query, K_utm_source)
      ]_vars


\* C28: the redirect does not depend on is_active: after any updates, GET
\* /j/{code} for the code of a job, active or deactivated (its row read
\* without error), redirects to that job's stored URL with
\* utm_source=LisboaUX set once; a code no row has redirects to '/'.
C28_InactiveJobsStillRedirect ==
    [][ (visit'.n # visit.n /\ visit'.lookup = "ok") =>
          /\ (visit'.to = "/") = (RowsWithCode(visit'.code) = {})
          /\ \A i \in RowsWithCode(visit'.code) :
                /\ visit'.to = "url" /\ ~visit'.threw
                /\ ValuesOf(visit'.url.query, K_utm_source) = <<"LisboaUX">>
                /\ Without(visit'.url.query, K_utm_source)
                     = Without(jobs[i].url.query, K_utm_source)
      ]_vars

\* C28's case: job 1 was deactivated in this run by an update that also
\* gave it a new URL, and its link was then followed to that URL
C28_Witness ==
    /\ last.op = "updateJob" /\ last.result.success
    /\ last.original # <<>> /\ last.original[1].is_active
    /\ last.form.url = U_twice /\ last.original[1].url # U_twice
    /\ Len(jobs) >= 1 /\ ~jobs[1].is_active
    /\ visit.n > 0 /\ visit.code = 1 /\ visit.lookup = "ok"
    /\ visit.to = "url"
    /\ visit.url.query = SearchParamsSet(jobs[1].url.query, K_utm_source, "LisboaUX")

(***************************************************************************)
(* Claims about the URL helpers (SpecUrls).                                *)
(***************************************************************************)
\* the names the cleaning is to remove: everything under utm_, and the
\* listed names
TrackingName(key) ==
    \/ key[1] = "utm_"
    \/ key \in { <<"ref">>, <<"fbclid">>, <<"gclid">>, <<"gad_source">>,
                 <<"msclkid">>, <<"twclid">>, <<"li_fat_id">>, <<"mc_eid">>,
                 <<"oly_enc_id">>, <<"_hsenc">>, <<"_hsmi">>, <<"vero_id">>,
                 <<"mkt_tok">> }

\* the pairs of a query whose name is not a tracking name, in order
Untracked(query) ==
    LET Plain(p) == ~TrackingName(p[1]) IN SelectSeq(query, Plain)

\* a helper was called on a string that parses as a URL
CalledOnUrl(fn) ==
    helper.fn = fn /\ helper.input.given = "text" /\ helper.input.abs

\* a helper was called on a string that does not parse as a URL
CalledOnOther(fn) ==
    helper.fn = fn /\ ~(helper.input.given = "text" /\ helper.input.abs)

\* C13: for every parseable URL, cleanTrackingParams returns a URL with no
\* parameter whose name starts with utm_ or is a listed tracking name
\* (repeated names included), and with every other parameter kept with its
\* value, in the original order.
C13_CleanRemovesTracking ==
    CalledOnUrl("cleanTrackingParams") =>
        /\ ~helper.threw
        /\ helper.out.given = "text" /\ helper.out.abs
        /\ \A i \in 1..Len(helper.out.query) :
               ~TrackingName(helper.out.query[i][1])
        /\ helper.out.query = Untracked(helper.input.query)

\* C13's case: a URL that carries one tracking name twice, around a
\* parameter that is kept, and a name that only begins like a listed one
C13_Witness ==
    /\ CalledOnUrl("cleanTrackingParams")
    /\ Len(helper.input.query) >= 2
    /\ \E i, j \in 1..Len(helper.input.query) :
           /\ i # j
           /\ helper.input.query[i][1] = helper.input.query[j][1]
           /\ TrackingName(helper.input.query[i][1])
    /\ helper.out.query # helper.input.query

\* C14: cleanTrackingParams is idempotent on every string, parseable or not:
\* cleaning what it returned returns the same.
C14_CleanIdempotent ==
    helper.fn = "cleanTrackingParams" =>
        (~helper.threw /\ ~helper.againThrew /\ helper.again = helper.out)

\* C14's case: a URL without a path and with two different tracking names,
\* which the first cleaning changes
C14_Witness ==
    /\ CalledOnUrl("cleanTrackingParams")
    /\ ~helper.input.slash
    /\ \E i, j \in 1..Len(helper.input.query) :
           /\ helper.input.query[i][1] # helper.input.query[j][1]
           /\ TrackingName(helper.input.query[i][1])
           /\ TrackingName(helper.input.query[j][1])
    /\ helper.out # helper.input
    /\ helper.again = helper.out

\* C15: for every parseable URL, also one that carries utm_source once or
\* several times, buildJobUrl(buildJobUrl(url)) equals buildJobUrl(url), and
\* the result has exactly one utm_source parameter, with value LisboaUX.
C15_BuildOverwrites ==
    CalledOnUrl("buildJobUrl") =>
        /\ ~helper.threw /\ ~helper.againThrew
        /\ helper.again = helper.out
        /\ ValuesOf(helper.out.query, K_utm_source) = <<"LisboaUX">>
        /\ Without(helper.out.query, K_utm_source)
               = Without(helper.input.query, K_utm_source)

\* C15's case: the URL given already carries utm_source twice
C15_Witness ==
    /\ CalledOnUrl("buildJobUrl")
    /\ Len(ValuesOf(helper.input.query, K_utm_source)) = 2
    /\ Len(helper.out.query) = 1

\* C16: on a string that does not parse as a URL no helper throws:
\* cleanTrackingParams, removeAllQueryParams and buildJobUrl return the
\* string unchanged and hasQueryParams returns false.
C16_HelpersNeverThrow ==
    /\ \A fn \in {"cleanTrackingParams", "removeAllQueryParams", "buildJobUrl"} :
           CalledOnOther(fn) => (~helper.threw /\ helper.out = helper.input)
    /\ CalledOnOther("hasQueryParams") => (~helper.threw /\ ~helper.flag)

(***************************************************************************)
(* Claims about the Telegram message text (SpecEscape).                    *)
(***************************************************************************)
\* what one character of a text must read as in the message
Entity(c) ==
    CASE c = "&" -> AMP
      [] c = "<" -> LT
      [] c = ">" -> GT
      [] OTHER -> <<c>>

\* the text with each character replaced by what it must read as
RECURSIVE EachEscaped(_)
EachEscaped(text) ==
    IF text = <<>> THEN <<>> ELSE Entity(Head(text)) \o EachEscaped(Tail(text))

\* the characters of s from position i on begin with e
StartsAt(s, i, e) ==
    /\ i + Len(e) - 1 <= Len(s)
    /\ \A k \in 1..Len(e) : s[i + k - 1] = e[k]

\* C25: for every text, the escaped field has no raw < or >, every & in it
\* starts one of &amp; &lt; &gt;, and each character of the text was
\* escaped exactly once (& to &amp;, < to &lt;, > to &gt;, the others
\* unchanged), so no entity is escaped a second time.
C25_FieldsEscaped ==
    msgText.built =>
        /\ \A i \in 1..Len(msgText.escaped) :
              /\ msgText.escaped[i] \notin {"<", ">"}
              /\ msgText.escaped[i] = "&" =>
                    \E e \in {AMP, LT, GT} : StartsAt(msgText.escaped, i, e)
        /\ msgText.escaped = EachEscaped(msgText.text)

\* C25's case: a text that holds <, > and an & that already begins an
\* entity
C25_Witness ==
    /\ msgText.built
    /\ msgText.text = <<"&", "l", "t", ";">>
    /\ msgText.escaped = <<"&", "a", "m", "p", ";", "l", "t", ";">>

(***************************************************************************)
(* Claims about the paginated job list (SpecPages).                        *)
(***************************************************************************)
\* C29: the page rendered, safePage, is within 1..max(totalPages, 1) for
\* every ?page parameter, every pending page and every list length, and
\* the visible slice is not empty when the list is not.
C29_SafePageInRange ==
    /\ safePage \in 1..Max(totalPages, 1)
    /\ pager.totalJobs > 0 => visibleJobs # {}

(***************************************************************************)
(* Claims about the admin jobs table (SpecSheet).                          *)
(***************************************************************************)
\* C30: once a row has been clicked, whenever the edit sheet is open a job
\* is selected, however row clicks, closes of the sheet and the delayed
\* clearing of the selection interleave.
C30_OpenSheetHasJob ==
    (sheet.clicked /\ sheet.sheetOpen) => sheet.selectedJob # 0

====
